---- MODULE Spec2Model ----
(***************************************************************************)
(* Model of the team-management backend: the entity store (teams, players, *)
(* lineup templates, lineup slots), the slot seeder and the assignment     *)
(* engine of services/lineup_service.py, the CSV import of                  *)
(* services/csv_service.py, and the player and team routers.               *)
(* One action is one HTTP request, run in its own database session; the    *)
(* bulk update is also given step by step, one step per commit.            *)
(***************************************************************************)
EXTENDS Integers, Sequences, FiniteSets, TLC

(* ---------------- bounds of the model ---------------- *)
MaxTeams == 2
MaxPlayers == 2
MaxTemplates == 1
MaxOccupied == 2
MaxBulk == 2
MaxRoster == 5
MaxRows == 4

(* ---------------- program constants ---------------- *)
FORWARD_LINES == 4
DEFENSE_PAIRS == 3
GOALIE_SLOTS == 2

\* Optional[int] columns: None is modelled as 0, ids start at 1.
None == 0

Positions == {"F", "D", "G"}
PlayerStatuses == {"Active", "Affiliate", "Injured", "Inactive"}
SlotTypes == {"FWD", "DEF", "G"}

FwdPositions == <<"LW", "C", "RW">>
DefPositions == <<"L", "R">>
goalie_labels == <<"Starter", "Backup">>

(* ---------------- input sets of the requests ---------------- *)
TeamNames == {"Hawks", "Owls"}
Seasons == {"2024"}
PlayerNames == {"Ann"}
TemplateNames == {"Game"}
\* The (position, status) pairs the player requests of Spec carry.
PlayerProfiles == {<<"F", "Injured">>}
TeamIdInputs == 1..(MaxTeams + 1)
PlayerIdInputs == 1..(MaxPlayers + 1)
TemplateIdInputs == 1..(MaxTemplates + 1)
\* A field a PlayerUpdate request leaves out (exclude_unset).
Unset == "unset"

\* teams, players, templates and slots are the committed tables; lastResult
\* is the last response sent; bulk is the bulk update request being served
\* (its position in the loop over its items) or last served; upload is the
\* file upload request (a CSV import or a restore) being served or last
\* served; files is the data directory as restore_backup reads and writes
\* it: the bytes of the database file and of the pre-restore copy; requests
\* are the requests being served side by side, each at its position.
VARIABLES teams, players, templates, slots, lastResult, bulk, upload,
          files, requests

vars == <<teams, players, templates, slots, lastResult, bulk, upload,
          files, requests>>

(* ---------------- utils/errors.py ---------------- *)
service_error_to_http_exception(error) ==
    IF error = "ValidationError" THEN 422
    ELSE IF error = "NotFoundError" THEN 404
    ELSE IF error = "ConflictError" THEN 409
    ELSE 400

\* What a request hands back to its caller.
Response(op) ==
    [op |-> op, ok |-> TRUE, error |-> "", message |-> "", http |-> 200,
     slot_id |-> None, player_id |-> None, template_id |-> None,
     warnings |-> <<>>, updated_slots |-> <<>>, slots |-> <<>>,
     imported |-> 0, skipped |-> 0, errors |-> <<>>, teams |-> <<>>]

\* handle_service_errors: a raised ServiceError becomes an HTTPException.
Raised(op, error, message) ==
    [Response(op) EXCEPT !.ok = FALSE, !.error = error, !.message = message,
                         !.http = service_error_to_http_exception(error)]

(* ---------------- services/lineup_service.py: slot seeder ------------- *)
SeedForwards(template_id) ==
    [i \in 1..(FORWARD_LINES * Len(FwdPositions)) |->
        LET line_num == ((i - 1) \div Len(FwdPositions)) + 1
            pos_idx == (i - 1) % Len(FwdPositions)
        IN [template_id |-> template_id,
            slot_type |-> "FWD",
            slot_label |-> "FWD" \o ToString(line_num) \o " "
                                 \o FwdPositions[pos_idx + 1],
            order_index |-> line_num * 10 + pos_idx,
            player_id |-> None]]

\* Defense pairs seeded without the offset of 100.
SeedDefenseNoOffset(template_id) ==
    [i \in 1..(DEFENSE_PAIRS * Len(DefPositions)) |->
        LET pair_num == ((i - 1) \div Len(DefPositions)) + 1
            pos_idx == (i - 1) % Len(DefPositions)
        IN [template_id |-> template_id,
            slot_type |-> "DEF",
            slot_label |-> "DEF" \o ToString(pair_num) \o " "
                                 \o DefPositions[pos_idx + 1],
            order_index |-> pair_num * 10 + pos_idx,
            player_id |-> None]]

SeedDefense(template_id) ==
    [i \in 1..(DEFENSE_PAIRS * Len(DefPositions)) |->
        LET pair_num == ((i - 1) \div Len(DefPositions)) + 1
            pos_idx == (i - 1) % Len(DefPositions)
        IN [template_id |-> template_id,
            slot_type |-> "DEF",
            slot_label |-> "DEF" \o ToString(pair_num) \o " "
                                 \o DefPositions[pos_idx + 1],
            order_index |-> 100 + pair_num * 10 + pos_idx,
            player_id |-> None]]

SeedGoalies(template_id) ==
    [i \in 1..Len(goalie_labels) |->
        [template_id |-> template_id,
         slot_type |-> "G",
         slot_label |-> "G " \o goalie_labels[i],
         order_index |-> 200 + (i - 1),
         player_id |-> None]]

\* The rows _seed_lineup_slots adds to the session, in the order added.
seed_lineup_slots(template_id) ==
    SeedForwards(template_id) \o SeedDefense(template_id)
        \o SeedGoalies(template_id)

(* ---------------- entity store helpers ---------------- *)
\* INTEGER PRIMARY KEY: the table_args asking for AUTOINCREMENT sit in a
\* nested Config class (models.py:73-76), which the ORM does not read, so a
\* new row gets the largest id in the table plus one.
NextId(ids) ==
    IF ids = {} THEN 1
    ELSE (CHOOSE m \in ids : \A i \in ids : i <= m) + 1

TemplateSlots(sl, template_id) ==
    {i \in DOMAIN sl : sl[i].template_id = template_id}

Occupied(sl) == {i \in DOMAIN sl : sl[i].player_id # None}

(* ---------------- services/lineup_service.py: assignment ------------- *)
\* A search for the player over the slots of every template.
find_player_in_any_lineup(sl, template_id, player_id) ==
    {i \in DOMAIN sl : sl[i].player_id = player_id}

\* select(LineupSlot).where(template_id == .., player_id == ..)
find_player_in_lineup(sl, template_id, player_id) ==
    {i \in DOMAIN sl : /\ sl[i].template_id = template_id
                       /\ sl[i].player_id = player_id}

\* .first() of a query without ORDER BY: any matching row, None when there
\* is none.
First(rows) == IF rows = {} THEN {None} ELSE rows

\* A compatibility map that lets forwards play defense.
is_position_compatible_lenient(player_position, slot_type) ==
    \/ player_position = "F" /\ slot_type \in {"FWD", "DEF"}
    \/ player_position = "D" /\ slot_type = "DEF"
    \/ player_position = "G" /\ slot_type = "G"

is_position_compatible(player_position, slot_type) ==
    \/ player_position = "F" /\ slot_type = "FWD"
    \/ player_position = "D" /\ slot_type = "DEF"
    \/ player_position = "G" /\ slot_type = "G"

\* A warning that names the slot being assigned instead of the slot found.
DuplicateWarningNamesTarget(sl, slot_id, player, existing_slot) ==
    IF existing_slot # None /\ existing_slot # slot_id
    THEN << [type |-> "duplicate",
             message |-> <<"Player", player.name, "is already assigned to",
                           sl[slot_id].slot_label>>] >>
    ELSE <<>>

\* An assignment that never warns of a duplicate.
DuplicateWarningNever(sl, slot_id, player, existing_slot) == <<>>

DuplicateWarning(sl, slot_id, player, existing_slot) ==
    IF existing_slot # None /\ existing_slot # slot_id
    THEN << [type |-> "duplicate",
             message |-> <<"Player", player.name, "is already assigned to",
                           sl[existing_slot].slot_label>>] >>
    ELSE <<>>

StatusWarning(player) ==
    IF player.status # "Active"
    THEN << [type |-> "status",
             message |-> <<"Player", player.name, "has status",
                           player.status>>] >>
    ELSE <<>>

PositionWarning(player, slot) ==
    IF ~is_position_compatible(player.position, slot.slot_type)
    THEN << [type |-> "position",
             message |-> <<"Player", player.name, "is a", player.position,
                           "but slot is for", slot.slot_type>>] >>
    ELSE <<>>

\* A write that moves the player: it also empties the other slots holding
\* player_id.
UpdateSlotMove(sl, slot_id, player_id) ==
    [i \in DOMAIN sl |->
        IF i = slot_id THEN [sl[i] EXCEPT !.player_id = player_id]
        ELSE IF player_id # None /\ sl[i].player_id = player_id
        THEN [sl[i] EXCEPT !.player_id = None]
        ELSE sl[i]]

\* A write under "if player_id:", which skips the clearing of a slot.
UpdateSlotIfSet(sl, slot_id, player_id) ==
    IF player_id = None THEN sl
    ELSE [sl EXCEPT ![slot_id].player_id = player_id]

\* The row written by "slot.player_id = player_id; session.commit()".
UpdateSlot(sl, slot_id, player_id) ==
    [sl EXCEPT ![slot_id].player_id = player_id]

\* "if player.team_id != template.team_id: raise": the check that lets an
\* assignment through.
SameTeamUnchecked(player, template) == TRUE

SameTeam(player, template) == player.team_id = template.team_id

\* The ServiceError of the team check, raised before the slot is touched.
TeamMismatchAfterWrite(sl, slot_id, player_id) ==
    [ok |-> FALSE, error |-> "ServiceError",
     message |-> "Player must be on the same team as the lineup template",
     warnings |-> <<>>,
     slots |-> [sl EXCEPT ![slot_id].player_id = player_id]]

TeamMismatch(sl, slot_id, player_id) ==
    [ok |-> FALSE, error |-> "ServiceError",
     message |-> "Player must be on the same team as the lineup template",
     warnings |-> <<>>, slots |-> sl]

\* assign_player_to_slot on slot table sl: the set of its possible outcomes
\* (one per row .first() may return), each the result or the ServiceError
\* raised, with the slot table it leaves.
assign_player_to_slot(sl, slot_id, player_id) ==
    IF slot_id \notin DOMAIN sl
    THEN {[ok |-> FALSE, error |-> "ServiceError",
           message |-> "Slot not found", warnings |-> <<>>, slots |-> sl]}
    ELSE IF sl[slot_id].template_id \notin DOMAIN templates
    THEN {[ok |-> FALSE, error |-> "ServiceError",
           message |-> "Template not found", warnings |-> <<>>, slots |-> sl]}
    ELSE IF player_id = None
    THEN {[ok |-> TRUE, error |-> "", message |-> "", warnings |-> <<>>,
           slots |-> UpdateSlot(sl, slot_id, player_id)]}
    ELSE IF player_id \notin DOMAIN players
    THEN {[ok |-> FALSE, error |-> "ServiceError",
           message |-> "Player not found", warnings |-> <<>>, slots |-> sl]}
    ELSE IF ~SameTeam(players[player_id], templates[sl[slot_id].template_id])
    THEN {TeamMismatch(sl, slot_id, player_id)}
    ELSE LET slot == sl[slot_id]
             player == players[player_id]
         IN {[ok |-> TRUE, error |-> "", message |-> "",
              warnings |-> DuplicateWarning(sl, slot_id, player, existing_slot)
                             \o StatusWarning(player)
                             \o PositionWarning(player, slot),
              slots |-> UpdateSlot(sl, slot_id, player_id)] :
             existing_slot \in
                 First(find_player_in_lineup(sl, slot.template_id, player_id))}

InsertBefore(seq, k, x) ==
    SubSeq(seq, 1, k - 1) \o <<x>> \o SubSeq(seq, k, Len(seq))

\* ORDER BY order_index over the rows of one template (rows with equal keys
\* stay in id order).
RECURSIVE OrderByIndex(_, _)
OrderByIndex(sl, ids) ==
    IF ids = {} THEN <<>>
    ELSE LET last == CHOOSE m \in ids : \A i \in ids : i <= m
             rest == OrderByIndex(sl, ids \ {last})
             after == {k \in 1..Len(rest) :
                          sl[rest[k]].order_index > sl[last].order_index}
             at == IF after = {} THEN Len(rest) + 1
                   ELSE CHOOSE k \in after : \A j \in after : k <= j
         IN InsertBefore(rest, at, last)

get_lineup_with_slots(sl, template_id) ==
    OrderByIndex(sl, TemplateSlots(sl, template_id))

\* No CSV import request has been received.
NoUpload ==
    [pc |-> "idle", team_id |-> None, file |-> <<>>, before |-> <<>>]

\* No bulk update request has been received.
NoBulk ==
    [pc |-> "idle", template_id |-> None, items |-> <<>>, i |-> 1,
     updated_slots |-> <<>>, all_warnings |-> <<>>, before |-> <<>>]

\* A file of the data directory: absent, or present with its bytes (a tuple
\* of blocks; a database begins with the SQLite header).
Absent == [exists |-> FALSE, content |-> <<>>]
File(content) == [exists |-> TRUE, content |-> content]

\* The data directory as create_all leaves it: a database file, no
\* pre-restore copy.
NoFiles ==
    [db |-> File(<<"SQLite format 3">>), pre_restore |-> Absent]

\* No request is being served side by side with another.
NoRequests == <<>>

(* ---------------- initial state: an empty database ---------------- *)
Init ==
    /\ teams = <<>>
    /\ players = <<>>
    /\ templates = <<>>
    /\ slots = <<>>
    /\ lastResult = Response("init")
    /\ bulk = NoBulk
    /\ upload = NoUpload
    /\ files = NoFiles
    /\ requests = NoRequests

(* ---------------- routers/teams.py ---------------- *)
\* The code points of the characters team names and seasons are written
\* with: SQLite compares TEXT byte by byte (BINARY collation).
ord ==
    ("-" :> 45) @@ ("2" :> 50) @@ ("3" :> 51) @@ ("4" :> 52) @@ ("5" :> 53)
        @@ ("A" :> 65) @@ ("B" :> 66) @@ ("a" :> 97) @@ ("b" :> 98)

\* a < b for two texts: at the first position where they differ a has the
\* smaller code point, or a is a proper prefix of b.
TextLess(a, b) ==
    \E k \in 1..(Len(b)) :
        /\ \A j \in 1..(k - 1) : j <= Len(a) /\ a[j] = b[j]
        /\ \/ k = Len(a) + 1
           \/ k <= Len(a) /\ ord[a[k]] < ord[b[k]]

\* An ORDER BY season alone.
TeamOrderBySeason(a, b) == TextLess(a.season, b.season)

\* order_by(Team.name, Team.season): row a sorts before row b.
TeamOrder(a, b) ==
    \/ TextLess(a.name, b.name)
    \/ a.name = b.name /\ TextLess(a.season, b.season)

\* The sequences that hold each element of a set once.
Orderings(S) ==
    {f \in [1..Cardinality(S) -> S] : \A x \in S : \E i \in DOMAIN f : f[i] = x}

\* select(Team).order_by(Team.name, Team.season).all(): the rows in an
\* order where no row comes after one it sorts before (rows with equal
\* keys in any order).
select_teams_ordered(tm) ==
    {[i \in DOMAIN f |-> [id |-> f[i], name |-> tm[f[i]].name,
                          season |-> tm[f[i]].season]] :
        f \in {g \in Orderings(DOMAIN tm) :
                  \A i, j \in DOMAIN g :
                     i < j => ~TeamOrder(tm[g[j]], tm[g[i]])}}

ListTeams ==
    /\ UNCHANGED <<teams, players, templates, slots, bulk, upload, files,
                   requests>>
    /\ \E rows \in select_teams_ordered(teams) :
          lastResult' = [Response("list_teams") EXCEPT !.teams = rows]

\* An existence check on the name alone.
existing_team_by_name(tm, name, season) ==
    {t \in DOMAIN tm : tm[t].name = name}

\* select(Team).where(Team.name == name, Team.season == season)
existing_team(tm, name, season) ==
    {t \in DOMAIN tm : tm[t].name = name /\ tm[t].season = season}

CreateTeam(name, season) ==
    /\ UNCHANGED <<players, templates, slots, bulk, upload, files, requests>>
    /\ \E existing \in First(existing_team(teams, name, season)) :
          IF existing # None
          THEN /\ teams' = teams
               /\ lastResult' = [Response("create_team") EXCEPT
                                    !.ok = FALSE, !.error = "HTTPException",
                                    !.message = "Team already exists",
                                    !.http = 409]
          ELSE /\ Len(teams) < MaxTeams
               /\ teams' = Append(teams, [name |-> name, season |-> season])
               /\ lastResult' = [Response("create_team") EXCEPT !.http = 201]

(* ---------------- routers/players.py ---------------- *)
\* Field(None, ge=1, le=99) of PlayerIn and PlayerUpdate.
\* A jersey is <<>> (None) or <<number>>.
JerseyField(jersey) ==
    jersey = <<>> \/ (1 <= jersey[1] /\ jersey[1] <= 99)

\* A request body the schema refuses never reaches the handler: 422.
RequestValidationError(op) ==
    [Response(op) EXCEPT !.ok = FALSE, !.error = "RequestValidationError",
                         !.message = "jersey", !.http = 422]

CreatePlayer(team_id, name, position, status, jersey) ==
    /\ UNCHANGED <<teams, templates, slots, bulk, upload, files, requests>>
    /\ IF ~JerseyField(jersey)
       THEN /\ players' = players
            /\ lastResult' = RequestValidationError("create_player")
       ELSE IF team_id \notin DOMAIN teams
       THEN /\ players' = players
            /\ lastResult' = Raised("create_player", "NotFoundError",
                                    "Team not found")
       ELSE LET id == NextId(DOMAIN players)
            IN /\ id <= MaxPlayers
               /\ players' = players @@
                      (id :> [team_id |-> team_id, name |-> name,
                              position |-> position, status |-> status,
                              jersey |-> jersey])
               /\ lastResult' = [Response("create_player") EXCEPT
                                    !.http = 201, !.player_id = id]

\* setattr(player, field, value) for every field the request carries.
ApplyUpdate(player, data) ==
    [player EXCEPT
        !.name = IF data.name = Unset THEN @ ELSE data.name,
        !.position = IF data.position = Unset THEN @ ELSE data.position,
        !.status = IF data.status = Unset THEN @ ELSE data.status,
        !.jersey = IF data.jersey_set THEN data.jersey ELSE @]

UpdatePlayer(player_id, data) ==
    /\ UNCHANGED <<teams, templates, slots, bulk, upload, files, requests>>
    /\ IF data.jersey_set /\ ~JerseyField(data.jersey)
       THEN /\ players' = players
            /\ lastResult' = RequestValidationError("update_player")
       ELSE IF player_id \notin DOMAIN players
       THEN /\ players' = players
            /\ lastResult' = Raised("update_player", "NotFoundError",
                                    "Player not found")
       ELSE /\ players' = [players EXCEPT
                              ![player_id] = ApplyUpdate(@, data)]
            /\ lastResult' = [Response("update_player") EXCEPT
                                 !.player_id = player_id]

\* A delete cascade on Player.lineup_slots: the slots of the player go too.
DeleteRowCascade(sl, player_id) ==
    SelectSeq(sl, LAMBDA row : row.player_id # player_id)

\* A delete that leaves the rows of Player.lineup_slots as they are.
DeleteRowKeep(sl, player_id) == sl

\* session.delete(player): the row goes, and the flush de-associates the
\* rows of Player.lineup_slots (models.py:71, a relationship without a
\* delete cascade) by setting their player_id to NULL.
DeleteRow(sl, player_id) ==
    [i \in DOMAIN sl |->
        IF sl[i].player_id = player_id
        THEN [sl[i] EXCEPT !.player_id = None]
        ELSE sl[i]]

DeletePlayer(player_id) ==
    /\ UNCHANGED <<teams, templates, bulk, upload, files, requests>>
    /\ IF player_id \notin DOMAIN players
       THEN /\ UNCHANGED <<players, slots>>
            /\ lastResult' = Raised("delete_player", "NotFoundError",
                                    "Player not found")
       ELSE /\ players' = [i \in DOMAIN players \ {player_id} |-> players[i]]
            /\ slots' = DeleteRow(slots, player_id)
            /\ lastResult' = [Response("delete_player") EXCEPT
                                 !.http = 204, !.player_id = player_id]

(* ---------------- routers/lineups.py over the lineup service --------- *)
CreateLineupTemplate(team_id, name) ==
    /\ UNCHANGED <<teams, players, bulk, upload, files, requests>>
    /\ IF team_id \notin DOMAIN teams
       THEN /\ UNCHANGED <<templates, slots>>
            /\ lastResult' = Raised("create_lineup", "ServiceError",
                                    "Team not found")
       ELSE LET id == Len(templates) + 1
            IN /\ id <= MaxTemplates
               /\ templates' = Append(templates,
                      [team_id |-> team_id, name |-> name,
                       date_saved |-> None])
               /\ slots' = slots \o seed_lineup_slots(id)
               /\ lastResult' = [Response("create_lineup") EXCEPT
                                    !.http = 201, !.template_id = id]

AssignPlayerToSlot(slot_id, player_id) ==
    /\ UNCHANGED <<teams, players, templates, bulk, upload, files, requests>>
    /\ \E r \in assign_player_to_slot(slots, slot_id, player_id) :
          /\ Cardinality(Occupied(r.slots)) <= MaxOccupied
          /\ slots' = r.slots
          /\ lastResult' =
                IF r.ok
                THEN [Response("assign") EXCEPT
                         !.slot_id = slot_id, !.player_id = player_id,
                         !.warnings = r.warnings]
                ELSE Raised("assign", r.error, r.message)

\* template.date_saved = datetime.utcnow(): 1 stands for the time set.
SaveLineup(template_id) ==
    /\ UNCHANGED <<teams, players, slots, bulk, upload, files, requests>>
    /\ IF template_id \notin DOMAIN templates
       THEN /\ templates' = templates
            /\ lastResult' = Raised("save_lineup", "ServiceError",
                                    "Template not found")
       ELSE /\ templates' = [templates EXCEPT ![template_id].date_saved = 1]
            /\ lastResult' = [Response("save_lineup") EXCEPT
                                 !.template_id = template_id]

GetLineupDetail(template_id) ==
    /\ UNCHANGED <<teams, players, templates, slots, bulk, upload, files, requests>>
    /\ IF template_id \notin DOMAIN templates
       THEN lastResult' = Raised("get_lineup", "ServiceError",
                                 "Template not found")
       ELSE lastResult' = [Response("get_lineup") EXCEPT
                              !.template_id = template_id,
                              !.slots = get_lineup_with_slots(slots,
                                                              template_id)]

\* A loop body that records the slot before the assignment is tried.
bulk_step_append_first(sl, item, updated_slots, all_warnings) ==
    IF item.slot_id = None
    THEN {[slots |-> sl, updated_slots |-> updated_slots,
           warnings |-> all_warnings]}
    ELSE {IF r.ok
          THEN [slots |-> r.slots,
                updated_slots |-> Append(updated_slots, item.slot_id),
                warnings |-> all_warnings \o r.warnings]
          ELSE [slots |-> sl,
                updated_slots |-> Append(updated_slots, item.slot_id),
                warnings |-> Append(all_warnings,
                                [type |-> "error",
                                 message |-> <<"Failed to update slot",
                                               item.slot_id, r.message>>])] :
          r \in assign_player_to_slot(sl, item.slot_id, item.player_id)}

\* One pass of the loop body of bulk_update_slots on one assignment, through
\* assign_player_to_slot (which commits when it succeeds): the set of its
\* possible outcomes.
bulk_step(sl, item, updated_slots, all_warnings) ==
    IF item.slot_id = None
    THEN {[slots |-> sl, updated_slots |-> updated_slots,
           warnings |-> all_warnings]}
    ELSE {IF r.ok
          THEN [slots |-> r.slots,
                updated_slots |-> Append(updated_slots, item.slot_id),
                warnings |-> all_warnings \o r.warnings]
          ELSE [slots |-> sl,
                updated_slots |-> updated_slots,
                warnings |-> Append(all_warnings,
                                [type |-> "error",
                                 message |-> <<"Failed to update slot",
                                               item.slot_id, r.message>>])] :
          r \in assign_player_to_slot(sl, item.slot_id, item.player_id)}

\* bulk_update_slots: the loop over the assignments from item i on; the set
\* of possible outcomes.
RECURSIVE BulkLoop(_, _, _, _, _)
BulkLoop(sl, items, i, updated_slots, all_warnings) ==
    IF i > Len(items)
    THEN {[slots |-> sl, updated_slots |-> updated_slots,
           warnings |-> all_warnings]}
    ELSE UNION {BulkLoop(r.slots, items, i + 1, r.updated_slots, r.warnings) :
                r \in bulk_step(sl, items[i], updated_slots, all_warnings)}

\* A template check that never fails.
BulkTemplateMissingNever(template_id) == FALSE

\* template = session.get(LineupTemplate, template_id); if not template
BulkTemplateMissing(template_id) == template_id \notin DOMAIN templates

BulkUpdateSlots(template_id, items) ==
    /\ UNCHANGED <<teams, players, templates, bulk, upload, files, requests>>
    /\ IF BulkTemplateMissing(template_id)
       THEN /\ slots' = slots
            /\ lastResult' = Raised("bulk_update", "ServiceError",
                                    "Template not found")
       ELSE \E r \in BulkLoop(slots, items, 1, <<>>, <<>>) :
               /\ Cardinality(Occupied(r.slots)) <= MaxOccupied
               /\ slots' = r.slots
               /\ lastResult' = [Response("bulk_update") EXCEPT
                                    !.template_id = template_id,
                                    !.updated_slots = r.updated_slots,
                                    !.warnings = r.warnings]

(* The same request, step by step: every session.commit() of the handler    *)
(* ends a step, so the committed tables between two steps are what another  *)
(* session (or a restart) finds.                                            *)
\* The request arrives: the template check, before the loop.
BulkBegin(template_id, items) ==
    /\ bulk.pc = "idle"
    /\ UNCHANGED <<teams, players, templates, slots, upload, files, requests>>
    /\ IF BulkTemplateMissing(template_id)
       THEN /\ bulk' = [NoBulk EXCEPT !.pc = "done",
                                      !.template_id = template_id,
                                      !.items = items, !.before = slots]
            /\ lastResult' = Raised("bulk_update", "ServiceError",
                                    "Template not found")
       ELSE /\ bulk' = [NoBulk EXCEPT !.pc = "loop",
                                      !.template_id = template_id,
                                      !.items = items, !.before = slots]
            /\ lastResult' = lastResult

\* The loop body on item i; assign_player_to_slot commits its write.
BulkItem ==
    /\ bulk.pc = "loop"
    /\ bulk.i <= Len(bulk.items)
    /\ UNCHANGED <<teams, players, templates, lastResult, upload, files, requests>>
    /\ \E r \in bulk_step(slots, bulk.items[bulk.i], bulk.updated_slots,
                           bulk.all_warnings) :
          /\ slots' = r.slots
          /\ bulk' = [bulk EXCEPT !.i = @ + 1,
                                  !.updated_slots = r.updated_slots,
                                  !.all_warnings = r.warnings]

\* After the loop: the last session.commit() and the result.
BulkReturn ==
    /\ bulk.pc = "loop"
    /\ bulk.i > Len(bulk.items)
    /\ UNCHANGED <<teams, players, templates, slots, upload, files, requests>>
    /\ bulk' = [bulk EXCEPT !.pc = "done"]
    /\ lastResult' = [Response("bulk_update") EXCEPT
                         !.template_id = bulk.template_id,
                         !.updated_slots = bulk.updated_slots,
                         !.warnings = bulk.all_warnings]

(* ---------------- services/csv_service.py ---------------- *)
(* Text of a CSV file is modelled as a tuple of one-character strings, so   *)
(* that strip, upper, int and split work on it as they do in the code.     *)
EXPECTED_HEADERS ==
    <<"name", "position", "jersey", "hand", "birthdate", "email", "phone",
      "status">>

\* A field csv.DictReader fills with None: the row is shorter than the header.
NoField == <<"None">>

LowerCase ==
    <<"a", "b", "c", "d", "e", "f", "g", "i", "j", "l", "n", "r", "t", "u",
      "v", "x">>
UpperCase ==
    <<"A", "B", "C", "D", "E", "F", "G", "I", "J", "L", "N", "R", "T", "U",
      "V", "X">>

upper_char(c) ==
    IF \E k \in 1..Len(LowerCase) : LowerCase[k] = c
    THEN UpperCase[CHOOSE k \in 1..Len(LowerCase) : LowerCase[k] = c]
    ELSE c

\* str.upper()
upper(text) == [k \in 1..Len(text) |-> upper_char(text[k])]

RECURSIVE lstrip(_)
lstrip(text) ==
    IF text # <<>> /\ Head(text) = " " THEN lstrip(Tail(text)) ELSE text

RECURSIVE rstrip(_)
rstrip(text) ==
    IF text # <<>> /\ text[Len(text)] = " "
    THEN rstrip(SubSeq(text, 1, Len(text) - 1))
    ELSE text

\* str.strip()
strip(text) == rstrip(lstrip(text))

Digits == <<"0", "1", "2", "3", "4", "5", "6", "7", "8", "9">>

digit_value(c) == (CHOOSE k \in 1..Len(Digits) : Digits[k] = c) - 1

RECURSIVE digits_value(_)
digits_value(text) ==
    IF text = <<>> THEN 0
    ELSE 10 * digits_value(SubSeq(text, 1, Len(text) - 1))
             + digit_value(text[Len(text)])

IsDigits(text) ==
    /\ text # <<>>
    /\ \A k \in 1..Len(text) : \E d \in 1..Len(Digits) : Digits[d] = text[k]

\* int(text): the value, or ValueError (ok = FALSE).
int(text) ==
    IF IsDigits(text) THEN [ok |-> TRUE, value |-> digits_value(text)]
    ELSE IF text # <<>> /\ Head(text) = "-" /\ IsDigits(Tail(text))
    THEN [ok |-> TRUE, value |-> 0 - digits_value(Tail(text))]
    ELSE IF text # <<>> /\ Head(text) = "+" /\ IsDigits(Tail(text))
    THEN [ok |-> TRUE, value |-> digits_value(Tail(text))]
    ELSE [ok |-> FALSE, value |-> 0]

\* status_map.get(status_value.upper(), PlayerStatus.ACTIVE)
status_map(text) ==
    IF text \in {<<"A", "F", "F", "I", "L", "I", "A", "T", "E">>,
                 <<"A", "F", "F">>} THEN "Affiliate"
    ELSE IF text \in {<<"I", "N", "J", "U", "R", "E", "D">>,
                      <<"I", "N", "J">>} THEN "Injured"
    ELSE IF text \in {<<"I", "N", "A", "C", "T", "I", "V", "E">>,
                      <<"I", "N", "A">>} THEN "Inactive"
    ELSE "Active"

\* The one-character text of a Position value, as the enum value.
PositionOf(text) == text[1]

IsPosition(text) == Len(text) = 1 /\ text[1] \in Positions

\* _parse_player_row: the player data of a row, or the exception raised.
\* The hand, birthdate and phone columns of the modelled rows are empty.
parse_player_row(row, team_id) ==
    IF \E f \in {"name", "position", "jersey", "email", "status"} :
           row[f] = NoField
    THEN [ok |-> FALSE, reason |-> "AttributeError"]
    ELSE IF strip(row.jersey) # <<>> /\ ~int(strip(row.jersey)).ok
    THEN [ok |-> FALSE, reason |-> "Invalid jersey number"]
    ELSE [ok |-> TRUE,
          data |-> [team_id |-> team_id,
                    name |-> strip(row.name),
                    position |-> upper(strip(row.position)),
                    jersey |-> IF strip(row.jersey) = <<>> THEN <<>>
                               ELSE <<int(strip(row.jersey)).value>>,
                    email |-> strip(row.email),
                    status |-> IF strip(row.status) = <<>> THEN "Active"
                               ELSE status_map(upper(strip(row.status)))]]

\* email.split("@")[1], for an email that contains "@": the text between
\* the first "@" and the next one, or the end.
RECURSIVE until_at(_)
until_at(text) ==
    IF text = <<>> \/ Head(text) = "@" THEN <<>>
    ELSE <<Head(text)>> \o until_at(Tail(text))

RECURSIVE after_at(_)
after_at(text) ==
    IF Head(text) = "@" THEN Tail(text) ELSE after_at(Tail(text))

split_at_1(email) == until_at(after_at(email))

Contains(text, c) == \E k \in 1..Len(text) : text[k] = c

\* if "@" not in email or "." not in email.split("@")[1]: raise
email_format_ok(email) ==
    Contains(email, "@") /\ Contains(split_at_1(email), ".")

\* A range check that lets 0 and 100 through.
jersey_in_range_wide(jersey) == 0 <= jersey /\ jersey <= 100

\* 1 <= player_data["jersey"] <= 99
jersey_in_range(jersey) == 1 <= jersey /\ jersey <= 99

\* _validate_player_data: "" when the data pass, else the ValueError raised.
validate_player_data(data) ==
    IF data.name = <<>> THEN "Name is required"
    ELSE IF ~IsPosition(data.position) THEN "Invalid position"
    ELSE IF data.jersey # <<>> /\ ~jersey_in_range(data.jersey[1])
    THEN "Jersey number must be between 1 and 99"
    ELSE IF data.email # <<>> /\ ~email_format_ok(data.email)
    THEN "Invalid email format"
    ELSE ""

\* A duplicate query that forgets the team.
find_duplicate_player_any_team(pl, data) ==
    {p \in DOMAIN pl : pl[p].name = data.name}

\* select(Player).where(team_id == .., name == ..)
find_duplicate_player(pl, data) ==
    {p \in DOMAIN pl : pl[p].team_id = data.team_id /\ pl[p].name = data.name}

\* A session that does not flush before a query: the query sees the
\* committed rows only.
query_view_committed(committed, pending) == committed

\* The rows a query of the session sees: session.exec autoflushes, so the
\* players added earlier in the batch are among them.
query_view(committed, pending) == pending

\* Row numbers counted from the first data row.
row_number_from_one(k) == k

\* enumerate(csv_reader, start=2): the number of the k-th row read.
row_number(k) == k + 1

\* A rejected row that is not counted as skipped.
skip_row_uncounted(result, error) ==
    [result EXCEPT !.errors = Append(@, error)]

\* result.errors.append(...); result.skipped += 1
skip_row(result, error) ==
    [result EXCEPT !.errors = Append(@, error), !.skipped = @ + 1]

\* The body of the loop of import_players on the k-th row read; pending is
\* the player table as the session holds it.
import_row(committed, pending, result, row, k, team_id) ==
    LET parsed == parse_player_row(row, team_id)
        invalid == IF parsed.ok THEN validate_player_data(parsed.data)
                   ELSE parsed.reason
    IN IF invalid # ""
       THEN [players |-> pending,
             result |-> skip_row(result,
                           [row |-> row_number(k), field |-> "general",
                            reason |-> <<invalid>>, value |-> row])]
       ELSE IF find_duplicate_player(query_view(committed, pending),
                                     parsed.data) # {}
       THEN [players |-> pending,
             result |-> skip_row(result,
                           [row |-> row_number(k), field |-> "name",
                            reason |-> <<"Duplicate player:",
                                         parsed.data.name>>,
                            value |-> parsed.data.name])]
       ELSE [players |-> pending @@
                 (NextId(DOMAIN pending) :>
                     [team_id |-> team_id, name |-> parsed.data.name,
                      position |-> PositionOf(parsed.data.position),
                      status |-> parsed.data.status,
                      jersey |-> parsed.data.jersey]),
             result |-> [result EXCEPT !.imported = @ + 1]]

RECURSIVE ImportLoop(_, _, _, _, _, _)
ImportLoop(committed, pending, result, rows, k, team_id) ==
    IF k > Len(rows) THEN [players |-> pending, result |-> result]
    ELSE LET r == import_row(committed, pending, result, rows[k], k, team_id)
         IN ImportLoop(committed, r.players, r.result, rows, k + 1, team_id)

\* A line with no field at all; csv.DictReader passes over it.
BlankLine == <<>>

\* The rows csv.DictReader yields: the lines after the header, blank lines
\* left out.
DictReader(lines) == SelectSeq(lines, LAMBDA line : line # BlankLine)

\* A header check that misses nothing.
missing_headers_none(fieldnames) == {}

\* set(EXPECTED_HEADERS) - set(csv_reader.fieldnames)
missing_headers(fieldnames) ==
    {EXPECTED_HEADERS[k] : k \in 1..Len(EXPECTED_HEADERS)}
        \ {fieldnames[k] : k \in 1..Len(fieldnames)}

\* CSVImportResult()
CSVImportResult == [imported |-> 0, skipped |-> 0, errors |-> <<>>]

\* import_players: the result and the player table committed, or the
\* ServiceError raised after the rollback.
import_players(pl, team_id, file) ==
    IF file.fieldnames = <<>>
    THEN [ok |-> FALSE, message |-> "CSV file is empty or invalid",
          players |-> pl, result |-> CSVImportResult]
    ELSE IF missing_headers(file.fieldnames) # {}
    THEN [ok |-> FALSE, message |-> "Missing required headers",
          players |-> pl, result |-> CSVImportResult]
    ELSE LET r == ImportLoop(pl, pl, CSVImportResult, DictReader(file.lines),
                             1, team_id)
         IN [ok |-> TRUE, message |-> "",
             players |-> IF r.result.imported > 0 THEN r.players ELSE pl,
             result |-> r.result]

\* str(n) of a natural number: its decimal digits.
RECURSIVE str(_)
str(n) ==
    IF n < 10 THEN <<Digits[n + 1]>>
    ELSE str(n \div 10) \o <<Digits[(n % 10) + 1]>>

\* player.status.value as the text written to the file.
status_value(status) ==
    IF status = "Affiliate"
    THEN <<"A", "f", "f", "i", "l", "i", "a", "t", "e">>
    ELSE IF status = "Injured" THEN <<"I", "n", "j", "u", "r", "e", "d">>
    ELSE IF status = "Inactive"
    THEN <<"I", "n", "a", "c", "t", "i", "v", "e">>
    ELSE <<"A", "c", "t", "i", "v", "e">>

\* The row export_players writes for a player, as DictReader reads it back.
\* The players of the model carry no hand, birthdate, email or phone: these
\* columns are written blank.
export_row(player) ==
    [name |-> player.name,
     position |-> <<player.position>>,
     jersey |-> IF player.jersey = <<>> THEN <<>> ELSE str(player.jersey[1]),
     email |-> <<>>,
     status |-> status_value(player.status)]

\* export_players: the header and one row per player of the team, in the
\* order the query without ORDER BY returns them (any order).
export_players(pl, team_id) ==
    {[is_csv_name |-> TRUE, fieldnames |-> EXPECTED_HEADERS,
      lines |-> [k \in DOMAIN f |-> export_row(pl[f[k]])]] :
        f \in Orderings({p \in DOMAIN pl : pl[p].team_id = team_id})}

(* ---------------- routers/players.py: CSV import ---------------- *)
ImportPlayersCsv(team_id, file) ==
    /\ UNCHANGED <<teams, templates, slots, bulk, files, requests>>
    /\ upload' = [pc |-> "done", team_id |-> team_id, file |-> file,
                  before |-> players]
    /\ IF team_id \notin DOMAIN teams
       THEN /\ players' = players
            /\ lastResult' = Raised("import_csv", "NotFoundError",
                                    "Team not found")
       ELSE IF ~file.is_csv_name
       THEN /\ players' = players
            /\ lastResult' = Raised("import_csv", "ValidationError",
                                    "File must be a CSV file")
       ELSE LET r == import_players(players, team_id, file)
            IN /\ Cardinality(DOMAIN r.players) <= MaxRoster
               /\ players' = r.players
               /\ lastResult' =
                     IF r.ok
                     THEN [Response("import_csv") EXCEPT
                              !.imported = r.result.imported,
                              !.skipped = r.result.skipped,
                              !.errors = r.result.errors]
                     ELSE Raised("import_csv", "ServiceError", r.message)

(* ---------------- the requests of Spec ---------------- *)
SlotsPerTemplate ==
    FORWARD_LINES * Len(FwdPositions) + DEFENSE_PAIRS * Len(DefPositions)
        + Len(goalie_labels)

\* Slot ids a request names: the slots at the given offsets of each of the
\* first n templates, and an id no slot has.
SlotIds(offsets, n) ==
    {(t - 1) * SlotsPerTemplate + o : t \in 1..n, o \in offsets}
        \cup {n * SlotsPerTemplate + 1}

\* PlayerUpdate bodies: no field set, or position and status set together.
\* jersey_set tells whether the body carries a jersey.
PlayerUpdates(profiles) ==
    {[name |-> Unset, position |-> Unset, status |-> Unset,
      jersey_set |-> FALSE, jersey |-> <<>>]}
        \cup {[name |-> Unset, position |-> pr[1], status |-> pr[2],
                jersey_set |-> FALSE, jersey |-> <<>>] : pr \in profiles}

\* Spec names the first forward slot and the first goalie slot.
SlotIdInputs == SlotIds({1, 19}, MaxTemplates)

BulkItems ==
    [slot_id : SlotIdInputs, player_id : {None} \cup (1..MaxPlayers)]
BulkInputs ==
    UNION {[1..n -> BulkItems] : n \in 0..MaxBulk}

Next ==
    \/ \E name \in TeamNames, season \in Seasons : CreateTeam(name, season)
    \/ \E team_id \in TeamIdInputs, name \in PlayerNames,
          pr \in PlayerProfiles :
          CreatePlayer(team_id, name, pr[1], pr[2], <<>>)
    \/ \E player_id \in PlayerIdInputs, data \in PlayerUpdates(PlayerProfiles) :
          UpdatePlayer(player_id, data)
    \/ \E player_id \in PlayerIdInputs : DeletePlayer(player_id)
    \/ \E team_id \in TeamIdInputs, name \in TemplateNames :
          CreateLineupTemplate(team_id, name)
    \/ \E slot_id \in SlotIdInputs, player_id \in {None} \cup PlayerIdInputs :
          AssignPlayerToSlot(slot_id, player_id)
    \/ \E template_id \in TemplateIdInputs, items \in BulkInputs :
          BulkUpdateSlots(template_id, items)
    \/ \E template_id \in TemplateIdInputs : SaveLineup(template_id)
    \/ \E template_id \in TemplateIdInputs : GetLineupDetail(template_id)

Spec == Init /\ [][Next]_vars

(* ---------------- SpecAssign: the assignment engine on a populated ---- *)
(* ---------------- database                                         ---- *)
\* Two teams, two templates of team 1 with their seeded slots, and two
\* players of team 1: player 1 with any position and status, player 2 a
\* forward.
InitAssign ==
    /\ teams = << [name |-> "Hawks", season |-> "2024"],
                  [name |-> "Owls", season |-> "2024"] >>
    /\ templates = << [team_id |-> 1, name |-> "Game", date_saved |-> None],
                      [team_id |-> 1, name |-> "Game", date_saved |-> None] >>
    /\ slots = seed_lineup_slots(1) \o seed_lineup_slots(2)
    /\ \E position \in Positions, status \in PlayerStatuses :
          players = (1 :> [team_id |-> 1, name |-> "Ann",
                           position |-> position, status |-> status,
                           jersey |-> <<>>])
                    @@ (2 :> [team_id |-> 1, name |-> "Bob",
                              position |-> "F", status |-> "Active",
                           jersey |-> <<>>])
    /\ lastResult = Response("init")
    /\ bulk = NoBulk
    /\ upload = NoUpload
    /\ files = NoFiles
    /\ requests = NoRequests

\* SpecAssign names two forward slots, a defense slot and a goalie slot.
AssignSlotIdInputs == SlotIds({1, 2, 13, 19}, 2)

NextAssign ==
    \/ \E data \in PlayerUpdates(Positions \X PlayerStatuses) : UpdatePlayer(1, data)
    \/ \E slot_id \in AssignSlotIdInputs, player_id \in {None, 1, 2, 3} :
          AssignPlayerToSlot(slot_id, player_id)

SpecAssign == InitAssign /\ [][NextAssign]_vars

(* ---------------- SpecBulk: bulk updates, commit by commit ------------- *)
MaxBatch == 3

\* Two teams, one template of team 1, a player of each team; each of the
\* first two slots is empty or holds the player of team 1.
InitBulk ==
    /\ teams = << [name |-> "Hawks", season |-> "2024"],
                  [name |-> "Owls", season |-> "2024"] >>
    /\ templates = << [team_id |-> 1, name |-> "Game", date_saved |-> None] >>
    /\ \E a, b \in {None, 1} :
          slots = [seed_lineup_slots(1) EXCEPT ![1].player_id = a,
                                               ![2].player_id = b]
    /\ players = (1 :> [team_id |-> 1, name |-> "Ann",
                        position |-> "F", status |-> "Active",
                           jersey |-> <<>>])
                 @@ (2 :> [team_id |-> 2, name |-> "Cy",
                           position |-> "F", status |-> "Active",
                           jersey |-> <<>>])
    /\ lastResult = Response("init")
    /\ bulk = NoBulk
    /\ upload = NoUpload
    /\ files = NoFiles
    /\ requests = NoRequests

\* Assignments name two slots of the template and an id no slot has, and an
\* empty slot, a player of the team, one of the other team or an unknown id.
BatchItems == [slot_id : SlotIds({1, 2}, 1), player_id : {None, 1, 2, 3}]
BatchInputs == UNION {[1..n -> BatchItems] : n \in 0..MaxBatch}

NextBulk ==
    \/ \E template_id \in {1, 2}, items \in BatchInputs :
          BulkBegin(template_id, items)
    \/ BulkItem
    \/ BulkReturn

\* SpecBulk follows one bulk update request from each initial state.
SpecBulk == InitBulk /\ [][NextBulk]_vars

(* ---------------- SpecImport: one CSV import ---------------- *)
Ann == <<"A", "n", "n">>
Bob == <<"B", "o", "b">>
Cy == <<"C", "y">>
Dee == <<"D", "e", "e">>
Eve == <<"E", "v", "e">>

CsvRow(name, position, jersey, email, status) ==
    [name |-> name, position |-> position, jersey |-> jersey,
     email |-> email, status |-> status]

\* The lines of the uploaded files: valid rows, a row that repeats a name
\* with blanks around it, rows with a bad position, jersey, name or email,
\* a row shorter than the header, and a blank line.
RowAnn == CsvRow(Ann, <<"F">>, <<"7">>, <<>>, <<>>)
RowAnnPadded ==
    CsvRow(<<" ">> \o Ann \o <<" ">>, <<" ", "d">>, <<>>,
           <<"a", "@", "b", ".", "c">>, <<"i", "n", "j">>)
RowBob == CsvRow(Bob, <<"G">>, <<"9", "9">>, <<>>, <<"x">>)
RowDee == CsvRow(Dee, <<"f">>, <<"1">>, <<>>, <<"A", "f", "f">>)
RowBadPosition == CsvRow(Cy, <<"X">>, <<>>, <<>>, <<>>)
RowBadJersey == CsvRow(Cy, <<"F">>, <<"1", "0", "0">>, <<>>, <<>>)
RowNoName == CsvRow(<<" ">>, <<"F">>, <<>>, <<>>, <<>>)
RowBadEmail == CsvRow(Eve, <<"D">>, <<>>, <<"a", "@", "b">>, <<>>)
RowShort == CsvRow(Eve, NoField, NoField, NoField, NoField)

CsvLines ==
    {RowAnn, RowAnnPadded, RowBob, RowDee, RowBadPosition, RowBadJersey,
     RowShort, BlankLine}

\* The lines of the short files.
MoreCsvLines == CsvLines \cup {RowNoName, RowBadEmail}

CsvFile(is_csv_name, fieldnames, lines) ==
    [is_csv_name |-> is_csv_name, fieldnames |-> fieldnames, lines |-> lines]

LinesUpTo(lines, n) == UNION {[1..k -> lines] : k \in 0..n}

\* Headers that lack a column, and the header of an empty file.
BadHeaders ==
    {<<>>, <<"name", "position", "jersey", "hand", "birthdate", "email",
             "phone">>,
     <<"name">>}

\* A complete header in another order, with one more column.
WideHeader ==
    <<"status", "name", "position", "jersey", "hand", "birthdate", "email",
      "phone", "notes">>

UploadInputs ==
    {CsvFile(TRUE, EXPECTED_HEADERS, lines) :
         lines \in LinesUpTo(CsvLines, MaxRows) \cup LinesUpTo(MoreCsvLines, 2)}
        \cup {CsvFile(TRUE, h, lines) :
                 h \in BadHeaders \cup {WideHeader},
                 lines \in LinesUpTo(MoreCsvLines, 2)}
        \cup {CsvFile(FALSE, EXPECTED_HEADERS, <<RowAnn>>)}

StoredPlayer(team_id, name) ==
    [team_id |-> team_id, name |-> name, position |-> "F",
     status |-> "Active", jersey |-> <<>>]

\* Two teams and no lineup; no player, Ann in one of the teams, or Ann in
\* team 2 and Bob in team 1.
InitImport ==
    /\ teams = << [name |-> "Hawks", season |-> "2024"],
                  [name |-> "Owls", season |-> "2024"] >>
    /\ templates = <<>>
    /\ slots = <<>>
    /\ players \in {<<>>, <<StoredPlayer(1, Ann)>>, <<StoredPlayer(2, Ann)>>,
                     <<StoredPlayer(2, Ann), StoredPlayer(1, Bob)>>}
    /\ lastResult = Response("init")
    /\ bulk = NoBulk
    /\ upload = NoUpload
    /\ files = NoFiles
    /\ requests = NoRequests

NextImport ==
    \E team_id \in {1, 3}, file \in UploadInputs :
        upload.pc = "idle" /\ ImportPlayersCsv(team_id, file)

\* SpecImport follows one import request from each initial state.
SpecImport == InitImport /\ [][NextImport]_vars

(* ---------------- SpecEmail: the email check of an import row ---------- *)
MaxEmailLen == 5

\* Every text of up to MaxEmailLen characters.
Emails == UNION {[1..n -> {"a", "@", "."}] : n \in 0..MaxEmailLen}

\* One team and no player.
InitEmail ==
    /\ teams = << [name |-> "Hawks", season |-> "2024"] >>
    /\ players = <<>>
    /\ templates = <<>>
    /\ slots = <<>>
    /\ lastResult = Response("init")
    /\ bulk = NoBulk
    /\ upload = NoUpload
    /\ files = NoFiles
    /\ requests = NoRequests

\* A file of one row, valid but for its email.
NextEmail ==
    \E email \in Emails :
        /\ upload.pc = "idle"
        /\ ImportPlayersCsv(1, CsvFile(TRUE, EXPECTED_HEADERS,
                                <<CsvRow(Ann, <<"F">>, <<>>, email, <<>>)>>))

SpecEmail == InitEmail /\ [][NextEmail]_vars

(* ---------------- SpecPlayers: the jerseys of the players -------------- *)
\* The jersey of a request body: none, the ends of the range and the
\* numbers next to them.
JerseyInputs == {<<>>, <<0>>, <<1>>, <<99>>, <<100>>}

\* The jersey column of an import row.
JerseyTexts ==
    {<<>>, <<"0">>, <<"1">>, <<"9", "9">>, <<"1", "0", "0">>, <<"x">>,
     <<"-", "1">>}

JerseyUpdates ==
    {[name |-> Unset, position |-> Unset, status |-> Unset,
      jersey_set |-> TRUE, jersey |-> jersey] : jersey \in JerseyInputs}
        \cup PlayerUpdates({})

NextPlayers ==
    \/ \E jersey \in JerseyInputs :
          CreatePlayer(1, Bob, "F", "Active", jersey)
    \/ \E player_id \in PlayerIdInputs, data \in JerseyUpdates :
          UpdatePlayer(player_id, data)
    \/ \E text \in JerseyTexts :
          ImportPlayersCsv(1, CsvFile(TRUE, EXPECTED_HEADERS,
                              <<CsvRow(Ann, <<"F">>, text, <<>>, <<>>)>>))

SpecPlayers == InitEmail /\ [][NextPlayers]_vars

(* ---------------- SpecTeams: creating and listing teams --------------- *)
\* Names and seasons as texts: a name, a longer name it is a prefix of, a
\* name that comes later and a lower-case name; two seasons.
TeamNameTexts == {<<"A">>, <<"A", "b">>, <<"B">>, <<"a">>}
SeasonTexts == {<<"2", "3", "-", "2", "4">>, <<"2", "4", "-", "2", "5">>}

NextTeams ==
    \/ \E name \in TeamNameTexts, season \in SeasonTexts :
          CreateTeam(name, season)
    \/ ListTeams

SpecTeams == Init /\ [][NextTeams]_vars

(* ---------------- services/backup_service.py ---------------- *)
\* get_engine of app/db.py takes no parameter: a call with positional
\* arguments raises TypeError.
get_engine(args) == IF args = <<>> THEN "engine" ELSE "TypeError"

\* The "try" of the verification: get_engine(settings), a session on the
\* engine and SELECT 1.  The exception it raises, "" when it raises none.
verify_restored(content) ==
    IF get_engine(<<"settings">>) = "TypeError" THEN "TypeError"
    ELSE IF content # <<>> /\ content[1] = "SQLite format 3" THEN ""
    ELSE "DatabaseError"

\* A handler of the verification failure that removes the pre-restore copy
\* without copying it back.
rollback_unlink_only(f, current_backup_path) ==
    IF current_backup_path /\ f.pre_restore.exists
    THEN [f EXCEPT !.pre_restore = Absent]
    ELSE f

\* "if current_backup_path and current_backup_path.exists()": copy2 back
\* over the database file, then unlink the copy.
rollback(f, current_backup_path) ==
    IF current_backup_path /\ f.pre_restore.exists
    THEN [db |-> f.pre_restore, pre_restore |-> Absent]
    ELSE f

\* The cleanup after a verified restore: unlink the pre-restore copy.
cleanup(f, current_backup_path) ==
    IF current_backup_path /\ f.pre_restore.exists
    THEN [f EXCEPT !.pre_restore = Absent]
    ELSE f

\* restore_backup up to the copy-aside: the checks of the upload, and the
\* copy of the database file when there is one.
RestoreBegin(is_db_name, content) ==
    /\ upload.pc \in {"idle", "done"}
    /\ UNCHANGED <<teams, players, templates, slots, bulk, requests>>
    /\ LET request == [NoUpload EXCEPT
                          !.file = [is_db_name |-> is_db_name,
                                    content |-> content],
                          !.before = files]
       IN IF ~is_db_name
          THEN /\ upload' = [request EXCEPT !.pc = "done"]
               /\ files' = files
               /\ lastResult' = Raised("restore_backup", "ServiceError",
                                       "Backup file must be a .db file")
          ELSE IF Len(content) = 0
          THEN /\ upload' = [request EXCEPT !.pc = "done"]
               /\ files' = files
               /\ lastResult' = Raised("restore_backup", "ServiceError",
                                       "Backup file is empty")
          ELSE /\ upload' = [request EXCEPT !.pc = "copied"]
               /\ files' = IF files.db.exists
                            THEN [files EXCEPT !.pre_restore = files.db]
                            ELSE files
               /\ lastResult' = lastResult

\* with open(db_path, "wb") as f: f.write(backup_content)
RestoreWrite ==
    /\ upload.pc = "copied"
    /\ UNCHANGED <<teams, players, templates, slots, bulk, requests,
                   lastResult>>
    /\ upload' = [upload EXCEPT !.pc = "written"]
    /\ files' = [files EXCEPT !.db = File(upload.file.content)]

\* The verification and what follows it: the rollback and the error, or
\* the cleanup and the result.
RestoreVerify ==
    /\ upload.pc = "written"
    /\ UNCHANGED <<teams, players, templates, slots, bulk, requests>>
    /\ upload' = [upload EXCEPT !.pc = "done"]
    /\ LET current_backup_path == upload.before.db.exists
       IN IF verify_restored(files.db.content) # ""
          THEN /\ files' = rollback(files, current_backup_path)
               /\ lastResult' = Raised("restore_backup", "ServiceError",
                                       "Restored database is invalid")
          ELSE /\ files' = cleanup(files, current_backup_path)
               /\ lastResult' = Response("restore_backup")

(* ---------------- SpecRestore: restores of the database file ---------- *)
\* The bytes of an upload: none, no database, and two databases.
Contents ==
    {<<>>, <<"x">>, <<"SQLite format 3", "a">>, <<"SQLite format 3", "b">>}

\* An empty database and no player; the database file is the one create_all
\* left, a database with rows, or absent.
InitRestore ==
    /\ teams = <<>>
    /\ players = <<>>
    /\ templates = <<>>
    /\ slots = <<>>
    /\ lastResult = Response("init")
    /\ bulk = NoBulk
    /\ upload = NoUpload
    /\ \E db \in {NoFiles.db, File(<<"SQLite format 3", "a">>), Absent} :
          files = [NoFiles EXCEPT !.db = db]
    /\ requests = NoRequests

NextRestore ==
    \/ \E is_db_name \in BOOLEAN, content \in Contents :
          RestoreBegin(is_db_name, content)
    \/ RestoreWrite
    \/ RestoreVerify

SpecRestore == InitRestore /\ [][NextRestore]_vars

(* ---------------- requests served side by side ---------------- *)
(* Two server processes on one database file each serve one request.  A    *)
(* step is what a request does between two points where the other can     *)
(* run: its reads up to the last query, then its write and commit.  Each   *)
(* request has its own session, so it reads the committed tables.          *)
TeamRequest(name, season) ==
    [op |-> "create_team", pc |-> "start", name |-> name, season |-> season,
     response |-> Response("init")]

\* create_team up to "if existing_team": the query, and the 409 when it
\* returns a row.
TeamCheck(r) ==
    /\ r \in DOMAIN requests
    /\ requests[r].op = "create_team"
    /\ requests[r].pc = "start"
    /\ UNCHANGED <<teams, players, templates, slots, bulk, upload, files>>
    /\ \E existing \in First(existing_team(teams, requests[r].name,
                                             requests[r].season)) :
          IF existing # None
          THEN LET response == [Response("create_team") EXCEPT
                                   !.ok = FALSE, !.error = "HTTPException",
                                   !.message = "Team already exists",
                                   !.http = 409]
               IN /\ requests' = [requests EXCEPT ![r].pc = "done",
                                                 ![r].response = response]
                  /\ lastResult' = response
          ELSE /\ requests' = [requests EXCEPT ![r].pc = "checked"]
               /\ lastResult' = lastResult

\* create_team from Team(...) on: session.add, session.commit, and the 201.
TeamInsert(r) ==
    /\ r \in DOMAIN requests
    /\ requests[r].op = "create_team"
    /\ requests[r].pc = "checked"
    /\ Len(teams) < MaxTeams
    /\ UNCHANGED <<players, templates, slots, bulk, upload, files>>
    /\ teams' = Append(teams, [name |-> requests[r].name,
                               season |-> requests[r].season])
    /\ LET response == [Response("create_team") EXCEPT !.http = 201]
       IN /\ requests' = [requests EXCEPT ![r].pc = "done",
                                         ![r].response = response]
          /\ lastResult' = response

AssignRequest(slot_id, player_id) ==
    [op |-> "assign", pc |-> "start", slot_id |-> slot_id,
     player_id |-> player_id, warnings |-> <<>>,
     response |-> Response("init")]

\* assign_player_to_slot up to "# Update slot": the reads, the checks that
\* raise and the warnings.
AssignCheck(r) ==
    /\ r \in DOMAIN requests
    /\ requests[r].op = "assign"
    /\ requests[r].pc = "start"
    /\ UNCHANGED <<teams, players, templates, slots, bulk, upload, files>>
    /\ \E a \in assign_player_to_slot(slots, requests[r].slot_id,
                                       requests[r].player_id) :
          IF a.ok
          THEN /\ requests' = [requests EXCEPT ![r].pc = "checked",
                                              ![r].warnings = a.warnings]
               /\ lastResult' = lastResult
          ELSE LET response == Raised("assign", a.error, a.message)
               IN /\ requests' = [requests EXCEPT ![r].pc = "done",
                                                 ![r].response = response]
                  /\ lastResult' = response

\* assign_player_to_slot from "# Update slot" on: the write of the slot's
\* row, the commit and the result.
AssignCommit(r) ==
    /\ r \in DOMAIN requests
    /\ requests[r].op = "assign"
    /\ requests[r].pc = "checked"
    /\ UNCHANGED <<teams, players, templates, bulk, upload, files>>
    /\ slots' = UpdateSlot(slots, requests[r].slot_id, requests[r].player_id)
    /\ LET response == [Response("assign") EXCEPT
                            !.slot_id = requests[r].slot_id,
                            !.player_id = requests[r].player_id,
                            !.warnings = requests[r].warnings]
       IN /\ requests' = [requests EXCEPT ![r].pc = "done",
                                         ![r].response = response]
          /\ lastResult' = response

(* ---------------- SpecTeamRace: two create_team side by side ---------- *)

\* No team or one team, and two create_team requests received.
InitTeamRace ==
    /\ teams \in {<<>>} \cup {<<[name |-> name, season |-> season]>> :
                                 name \in TeamNameTexts, season \in SeasonTexts}
    /\ players = <<>>
    /\ templates = <<>>
    /\ slots = <<>>
    /\ lastResult = Response("init")
    /\ bulk = NoBulk
    /\ upload = NoUpload
    /\ files = NoFiles
    /\ requests \in [1..2 -> {TeamRequest(name, season) :
                                 name \in TeamNameTexts, season \in SeasonTexts}]

NextTeamRace ==
    \E r \in 1..2 : TeamCheck(r) \/ TeamInsert(r)

SpecTeamRace == InitTeamRace /\ [][NextTeamRace]_vars

(* ---------------- SpecAssignRace: two assigns side by side ------------ *)
\* One team, one template whose third slot is empty or holds a player, two
\* forwards, and two assign requests received.
InitAssignRace ==
    /\ teams = << [name |-> "Hawks", season |-> "2024"] >>
    /\ templates = << [team_id |-> 1, name |-> "Game", date_saved |-> None] >>
    /\ \E c \in {None, 1, 2} :
          slots = [seed_lineup_slots(1) EXCEPT ![3].player_id = c]
    /\ players = (1 :> [team_id |-> 1, name |-> "Ann",
                        position |-> "F", status |-> "Active",
                        jersey |-> <<>>])
                 @@ (2 :> [team_id |-> 1, name |-> "Bob",
                           position |-> "F", status |-> "Active",
                           jersey |-> <<>>])
    /\ lastResult = Response("init")
    /\ bulk = NoBulk
    /\ upload = NoUpload
    /\ files = NoFiles
    /\ requests \in [1..2 -> {AssignRequest(slot_id, player_id) :
                                 slot_id \in SlotIds({1, 2}, 1),
                                 player_id \in {None, 1, 2}}]

NextAssignRace ==
    \E r \in 1..2 : AssignCheck(r) \/ AssignCommit(r)

SpecAssignRace == InitAssignRace /\ [][NextAssignRace]_vars

(* ---------------- SpecSwap: bulk updates over two lineups -------------- *)
\* One team with two templates and two forwards; each of the first two
\* slots of template 1 is empty or holds one of the players.
InitSwap ==
    /\ teams = << [name |-> "Hawks", season |-> "2024"] >>
    /\ templates = << [team_id |-> 1, name |-> "Game", date_saved |-> None],
                      [team_id |-> 1, name |-> "Away", date_saved |-> None] >>
    /\ \E a, b \in {None, 1, 2} :
          slots = [seed_lineup_slots(1) \o seed_lineup_slots(2)
                       EXCEPT ![1].player_id = a, ![2].player_id = b]
    /\ players = (1 :> [team_id |-> 1, name |-> "Ann",
                        position |-> "F", status |-> "Active",
                        jersey |-> <<>>])
                 @@ (2 :> [team_id |-> 1, name |-> "Bob",
                           position |-> "F", status |-> "Active",
                           jersey |-> <<>>])
    /\ lastResult = Response("init")
    /\ bulk = NoBulk
    /\ upload = NoUpload
    /\ files = NoFiles
    /\ requests = NoRequests

\* Assignments name two slots of template 1 and the first slot of
\* template 2, and an empty slot or one of the two players.
SwapItems == [slot_id : {1, 2, SlotsPerTemplate + 1}, player_id : {None, 1, 2}]
SwapInputs == UNION {[1..n -> SwapItems] : n \in 0..MaxBatch}

NextSwap ==
    \/ \E template_id \in {1, 3}, items \in SwapInputs :
          BulkBegin(template_id, items)
    \/ BulkItem
    \/ BulkReturn

\* SpecSwap follows one bulk update request from each initial state.
SpecSwap == InitSwap /\ [][NextSwap]_vars

(* ---------------- SpecRoundTrip: export, then import ------------------ *)
\* Names, one of them with a blank in front of it.
RoundTripNames == {Ann, <<" ">> \o Ann, Bob}

\* Two teams and no player.
InitRoundTrip ==
    /\ teams = << [name |-> "Hawks", season |-> "2024"],
                  [name |-> "Owls", season |-> "2024"] >>
    /\ players = <<>>
    /\ templates = <<>>
    /\ slots = <<>>
    /\ lastResult = Response("init")
    /\ bulk = NoBulk
    /\ upload = NoUpload
    /\ files = NoFiles
    /\ requests = NoRequests

\* Team 1 gets its players by create_player, update_player and imports;
\* then its export is imported into team 2, which has no player, and the
\* behaviour ends.
NextRoundTrip ==
    \/ \E name \in RoundTripNames, jersey \in {<<>>, <<17>>} :
          upload.team_id # 2 /\ CreatePlayer(1, name, "F", "Injured", jersey)
    \/ \E player_id \in PlayerIdInputs, data \in PlayerUpdates({<<"D", "Inactive">>}) :
          upload.team_id # 2 /\ UpdatePlayer(player_id, data)
    \/ /\ upload.team_id # 2
       /\ ImportPlayersCsv(1, CsvFile(TRUE, EXPECTED_HEADERS, <<RowDee>>))
    \/ \E file \in export_players(players, 1) :
          upload.team_id # 2 /\ ImportPlayersCsv(2, file)

SpecRoundTrip == InitRoundTrip /\ [][NextRoundTrip]_vars

(* ====================== properties ====================== *)
\* The 20 slots of a template in display order: type, label, order_index.
ExpectedSlots ==
    << <<"FWD", "FWD1 LW", 10>>, <<"FWD", "FWD1 C", 11>>,
       <<"FWD", "FWD1 RW", 12>>, <<"FWD", "FWD2 LW", 20>>,
       <<"FWD", "FWD2 C", 21>>, <<"FWD", "FWD2 RW", 22>>,
       <<"FWD", "FWD3 LW", 30>>, <<"FWD", "FWD3 C", 31>>,
       <<"FWD", "FWD3 RW", 32>>, <<"FWD", "FWD4 LW", 40>>,
       <<"FWD", "FWD4 C", 41>>, <<"FWD", "FWD4 RW", 42>>,
       <<"DEF", "DEF1 L", 110>>, <<"DEF", "DEF1 R", 111>>,
       <<"DEF", "DEF2 L", 120>>, <<"DEF", "DEF2 R", 121>>,
       <<"DEF", "DEF3 L", 130>>, <<"DEF", "DEF3 R", 131>>,
       <<"G", "G Starter", 200>>, <<"G", "G Backup", 201>> >>

Structure(row) == <<row.slot_type, row.slot_label, row.order_index>>

\* C1 (amended): a successful create_lineup_template leaves the new template
\* with exactly the 20 expected slots (12 FWD, 6 DEF, 2 G), all empty, their order_index values
\* pairwise distinct, and get_lineup_with_slots lists them forwards first,
\* then defense, then goalies; every get_lineup_with_slots response lists
\* the template's slots in that order.
C1_SeededSlots ==
    /\ (lastResult.op = "create_lineup" /\ lastResult.ok) =>
          LET t == lastResult.template_id
              ids == TemplateSlots(slots, t)
              ordered == get_lineup_with_slots(slots, t)
          IN /\ Cardinality(ids) = 20
             /\ Len(ExpectedSlots) = 20
             /\ Len(ordered) = Len(ExpectedSlots)
             /\ \A k \in 1..Len(ordered) :
                   /\ Structure(slots[ordered[k]]) = ExpectedSlots[k]
                   /\ slots[ordered[k]].player_id = None
                   /\ slots[ordered[k]].template_id = t
             /\ \A i, j \in ids :
                   slots[i].order_index = slots[j].order_index => i = j
    /\ (lastResult.op = "get_lineup" /\ lastResult.ok) =>
          /\ Len(lastResult.slots) = Len(ExpectedSlots)
          /\ \A k \in 1..Len(lastResult.slots) :
                /\ Structure(slots[lastResult.slots[k]]) = ExpectedSlots[k]
                /\ slots[lastResult.slots[k]].template_id
                       = lastResult.template_id

C1_Witness ==
    /\ lastResult.op = "create_lineup"
    /\ lastResult.ok
    /\ Cardinality(TemplateSlots(slots, lastResult.template_id)) > 0

\* C1 as stated: a successful create_lineup_template leaves the new template
\* with exactly 16 slots, all empty, each with one of the expected
\* (type, label, order_index) rows and pairwise distinct order_index values.
C1_SixteenSlots ==
    (lastResult.op = "create_lineup" /\ lastResult.ok) =>
        LET ids == TemplateSlots(slots, lastResult.template_id)
        IN /\ Cardinality(ids) = 16
           /\ \A i \in ids :
                 /\ slots[i].player_id = None
                 /\ \E k \in 1..Len(ExpectedSlots) :
                        Structure(slots[i]) = ExpectedSlots[k]
           /\ \A i, j \in ids :
                 slots[i].order_index = slots[j].order_index => i = j

C4_CrossTeamRejected ==
    [][lastResult'.op = "assign" =>
          \A s \in DOMAIN slots, p \in DOMAIN players :
             ( /\ slots[s].template_id \in DOMAIN templates
               /\ players[p].team_id
                      # templates[slots[s].template_id].team_id
               /\ AssignPlayerToSlot(s, p) )
             => (~lastResult'.ok /\ slots' = slots)]_vars

C4_Witness ==
    /\ lastResult.op = "assign"
    /\ ~lastResult.ok
    /\ lastResult.message
           = "Player must be on the same team as the lineup template"
    /\ Occupied(slots) # {}

(* ---------------- warnings of a response ---------------- *)
\* The slots of template t that hold player P.
Holders(sl, t, P) ==
    {i \in DOMAIN sl : sl[i].template_id = t /\ sl[i].player_id = P}

WarningsOfType(warnings, type) ==
    {k \in 1..Len(warnings) : warnings[k].type = type}

\* The label a duplicate warning names: the last part of its message.
NamedLabel(warning) == warning.message[Len(warning.message)]

OtherHolders(sl, S, P) == Holders(sl, sl[S].template_id, P) \ {S}

\* C6: a successful assign(S, P) returns a duplicate warning exactly when
\* another slot of S's template holds P at the time of the call, and the
\* warning names the label of such a slot.
C6_DuplicateIffOtherHolder ==
    [][( /\ lastResult'.op = "assign" /\ lastResult'.ok
         /\ lastResult'.player_id # None )
       => LET S == lastResult'.slot_id
              P == lastResult'.player_id
              dups == WarningsOfType(lastResult'.warnings, "duplicate")
          IN /\ (dups # {}) <=> (OtherHolders(slots, S, P) # {})
             /\ \A k \in dups :
                   \E i \in OtherHolders(slots, S, P) :
                      NamedLabel(lastResult'.warnings[k]) = slots[i].slot_label
      ]_vars

\* The compatibility map of the specification.
CompatiblePairs == {<<"F", "FWD">>, <<"D", "DEF">>, <<"G", "G">>}

\* C7: a successful assign of a player returns a status warning exactly when
\* the player's status is not Active and a position warning exactly when
\* (position, slot type) is not a compatible pair, each at most once and
\* whatever the other warnings are.
C7_StatusAndPositionWarnings ==
    [][( /\ lastResult'.op = "assign" /\ lastResult'.ok
         /\ lastResult'.player_id # None )
       => LET slot == slots[lastResult'.slot_id]
              player == players[lastResult'.player_id]
              st == WarningsOfType(lastResult'.warnings, "status")
              pos == WarningsOfType(lastResult'.warnings, "position")
          IN /\ Cardinality(st) = IF player.status # "Active" THEN 1 ELSE 0
             /\ Cardinality(pos) =
                   IF <<player.position, slot.slot_type>> \in CompatiblePairs
                   THEN 0 ELSE 1
      ]_vars

C7_Witness ==
    /\ lastResult.op = "assign" /\ lastResult.ok
    /\ WarningsOfType(lastResult.warnings, "duplicate") # {}
    /\ WarningsOfType(lastResult.warnings, "status") # {}
    /\ WarningsOfType(lastResult.warnings, "position") # {}

\* C8: a successful assign(S, P) leaves S holding P and changes nothing
\* else: every other slot, the structure of S, and every player record are
\* as before.
C8_AssignFrame ==
    [][(lastResult'.op = "assign" /\ lastResult'.ok)
       => /\ slots' = [slots EXCEPT
                          ![lastResult'.slot_id].player_id
                              = lastResult'.player_id]
          /\ slots'[lastResult'.slot_id].player_id = lastResult'.player_id
          /\ players' = players
          /\ templates' = templates
      ]_vars

C8_Witness ==
    /\ lastResult.op = "assign" /\ lastResult.ok
    /\ lastResult.player_id # None
    /\ Len(lastResult.warnings) >= 2
    /\ \E i \in Occupied(slots) :
          slots[i].template_id # slots[lastResult.slot_id].template_id

\* C9: assign(S, null) on an existing slot of an existing template succeeds
\* with no warnings and leaves S empty and every other slot as it was.
C9_ClearSlot ==
    [][lastResult'.op = "assign" =>
          \A s \in DOMAIN slots :
             ( /\ slots[s].template_id \in DOMAIN templates
               /\ AssignPlayerToSlot(s, None) )
             => ( /\ lastResult'.ok
                  /\ lastResult'.warnings = <<>>
                  /\ slots'[s].player_id = None
                  /\ \A i \in DOMAIN slots \ {s} : slots'[i] = slots[i]
                  /\ DOMAIN slots' = DOMAIN slots )]_vars

C9_Witness ==
    /\ lastResult.op = "assign" /\ lastResult.ok
    /\ lastResult.player_id = None
    /\ lastResult.slot_id \in DOMAIN slots
    /\ Occupied(slots) # {}

NotFoundMessages == {"Slot not found", "Template not found", "Player not found"}

\* C10: a failed assign is typed and modifies no slot: a missing slot,
\* template or player gives NotFound (404), a cross-team assign Conflict or
\* Invalid (409 or 422).
C10_TypedFailures ==
    [][(lastResult'.op = "assign" /\ ~lastResult'.ok) =>
          /\ slots' = slots
          /\ lastResult'.message \in NotFoundMessages =>
                (lastResult'.error = "NotFoundError" /\ lastResult'.http = 404)
          /\ lastResult'.message \notin NotFoundMessages =>
                \/ lastResult'.error = "ConflictError"
                      /\ lastResult'.http = 409
                \/ lastResult'.error = "ValidationError"
                      /\ lastResult'.http = 422
      ]_vars

(* ---------------- bulk updates ---------------- *)
\* An assignment the service refuses: its slot is unknown, or its player is
\* unknown or of another team than the slot's template.
ItemFails(sl, item) ==
    \/ item.slot_id \notin DOMAIN sl
    \/ /\ item.player_id # None
       /\ \/ item.player_id \notin DOMAIN players
          \/ players[item.player_id].team_id
                 # templates[sl[item.slot_id].template_id].team_id

\* The slot table after the assignments that are not refused have been
\* written in list order.
RECURSIVE Applied(_, _)
Applied(sl, items) ==
    IF items = <<>> THEN sl
    ELSE LET first == Head(items)
             next == IF ItemFails(sl, first) THEN sl
                     ELSE [sl EXCEPT ![first.slot_id].player_id =
                                         first.player_id]
         IN Applied(next, Tail(items))

RECURSIVE SucceededSlotIds(_, _)
SucceededSlotIds(sl, items) ==
    IF items = <<>> THEN <<>>
    ELSE IF ItemFails(sl, Head(items))
    THEN SucceededSlotIds(sl, Tail(items))
    ELSE <<Head(items).slot_id>> \o SucceededSlotIds(sl, Tail(items))

\* C11: a bulk update on an existing template returns success; its
\* updated_slots are the slot ids of the assignments that are not refused,
\* in list order; it returns one warning of type "error" per refused
\* assignment; and the slot table it leaves is the one before the request
\* with every assignment that is not refused written, in list order.
C11_BulkBestEffort ==
    (bulk.pc = "done" /\ bulk.template_id \in DOMAIN templates) =>
        /\ lastResult.op = "bulk_update"
        /\ lastResult.ok
        /\ lastResult.updated_slots
               = SucceededSlotIds(bulk.before, bulk.items)
        /\ Cardinality(WarningsOfType(lastResult.warnings, "error"))
               = Cardinality({k \in 1..Len(bulk.items) :
                                 ItemFails(bulk.before, bulk.items[k])})
        /\ slots = Applied(bulk.before, bulk.items)

C11_Witness ==
    /\ bulk.pc = "done"
    /\ lastResult.op = "bulk_update" /\ lastResult.ok
    /\ Len(bulk.items) = 3
    /\ ~ItemFails(bulk.before, bulk.items[1])
    /\ ItemFails(bulk.before, bulk.items[2])
    /\ ~ItemFails(bulk.before, bulk.items[3])
    /\ slots[bulk.items[1].slot_id].player_id
           # bulk.before[bulk.items[1].slot_id].player_id
    /\ slots[bulk.items[3].slot_id].player_id
           # bulk.before[bulk.items[3].slot_id].player_id
    /\ Len(lastResult.updated_slots) = 2

\* C12: while a bulk update is in its loop no change of the batch is
\* committed: the committed slot table is the one the request found.
C12_CommittedTogether ==
    bulk.pc = "loop" => slots = bulk.before

\* C13: a bulk update on a template id that does not exist raises before
\* any assignment is processed: no item is reached, no slot is recorded as
\* updated and the slot table is the one the request found.
C13_MissingTemplateFailsFast ==
    (bulk.pc # "idle" /\ bulk.template_id \notin DOMAIN templates) =>
        /\ bulk.pc = "done"
        /\ lastResult.op = "bulk_update"
        /\ ~lastResult.ok
        /\ bulk.i = 1
        /\ bulk.updated_slots = <<>>
        /\ slots = bulk.before

C13_Witness ==
    /\ bulk.pc = "done"
    /\ bulk.template_id \notin DOMAIN templates
    /\ ~lastResult.ok
    /\ \E k \in 1..Len(bulk.items) :
          /\ ~ItemFails(bulk.before, bulk.items[k])
          /\ bulk.before[bulk.items[k].slot_id].player_id
                 # bulk.items[k].player_id

(* ---------------- CSV import ---------------- *)
\* The header names every expected column.
HeaderComplete(file) ==
    \A h \in 1..Len(EXPECTED_HEADERS) :
        \E k \in 1..Len(file.fieldnames) :
            file.fieldnames[k] = EXPECTED_HEADERS[h]

\* The data rows of a file: its lines that are not blank.
DataRows(file) ==
    LET F[k \in 0..Len(file.lines)] ==
            IF k = 0 THEN <<>>
            ELSE IF file.lines[k] = <<>> THEN F[k - 1]
            ELSE Append(F[k - 1], file.lines[k])
    IN F[Len(file.lines)]

\* The row parses and validates.
RowValid(row) ==
    LET parsed == parse_player_row(row, None)
    IN parsed.ok /\ validate_player_data(parsed.data) = ""

RowName(row) == strip(row.name)

\* The k-th data row is to be imported into team T: it is valid, no player
\* of T had its name before the import and no earlier valid row has it.
RowAccepted(before, T, rows, k) ==
    /\ RowValid(rows[k])
    /\ ~\E p \in DOMAIN before :
           before[p].team_id = T /\ before[p].name = RowName(rows[k])
    /\ ~\E j \in 1..(k - 1) :
           RowValid(rows[j]) /\ RowName(rows[j]) = RowName(rows[k])

AcceptedRows(before, T, rows) ==
    {k \in 1..Len(rows) : RowAccepted(before, T, rows, k)}

\* An import of a .csv file with a complete header into an existing team
\* has been served.
ImportServed ==
    /\ upload.pc = "done"
    /\ upload.team_id \in DOMAIN teams
    /\ upload.file.is_csv_name
    /\ HeaderComplete(upload.file)

\* C14: an import of a file with a valid header and n data rows succeeds;
\* imported is the number of rows that are valid and not duplicates,
\* skipped is n - imported, errors has one entry per skipped row, the
\* players there were are unchanged and the new players are those of the
\* imported rows, all in the target team.
C14_ImportBestEffort ==
    ImportServed =>
        LET rows == DataRows(upload.file)
            accepted == AcceptedRows(upload.before, upload.team_id, rows)
            new == DOMAIN players \ DOMAIN upload.before
        IN /\ lastResult.op = "import_csv" /\ lastResult.ok
           /\ lastResult.imported = Cardinality(accepted)
           /\ lastResult.skipped = Len(rows) - lastResult.imported
           /\ Len(lastResult.errors) = lastResult.skipped
           /\ \A p \in DOMAIN upload.before :
                 p \in DOMAIN players /\ players[p] = upload.before[p]
           /\ Cardinality(new) = Cardinality(accepted)
           /\ \A p \in new :
                 /\ players[p].team_id = upload.team_id
                 /\ \E k \in accepted : players[p].name = RowName(rows[k])
           /\ \A k \in accepted :
                 \E p \in new : players[p].name = RowName(rows[k])

C14_Witness ==
    /\ ImportServed
    /\ lastResult.ok
    /\ Len(DataRows(upload.file)) = 4
    /\ lastResult.imported = 2
    /\ lastResult.skipped = 2
    /\ ~RowValid(DataRows(upload.file)[1])
    /\ RowValid(DataRows(upload.file)[4])
    /\ Cardinality(DOMAIN players) = Cardinality(DOMAIN upload.before) + 2

\* The data rows that are not imported, in file order.
SkippedRows(before, T, rows) ==
    LET F[k \in 0..Len(rows)] ==
            IF k = 0 THEN <<>>
            ELSE IF RowAccepted(before, T, rows, k) THEN F[k - 1]
            ELSE Append(F[k - 1], k)
    IN F[Len(rows)]

\* C15: the entries of errors are those of the skipped data rows in file
\* order, and the entry of the k-th data row carries row = k + 1.
C15_RowNumbers ==
    (ImportServed /\ lastResult.ok) =>
        LET rows == DataRows(upload.file)
            skipped == SkippedRows(upload.before, upload.team_id, rows)
        IN /\ Len(lastResult.errors) = Len(skipped)
           /\ \A j \in 1..Len(skipped) :
                 lastResult.errors[j].row = skipped[j] + 1

\* Four data rows, the third with an invalid position: imported = 3,
\* skipped = 1, one entry with row = 4.
C15_Witness ==
    /\ ImportServed
    /\ upload.file.lines = <<RowAnn, RowBob, RowBadPosition, RowDee>>
    /\ lastResult.imported = 3
    /\ lastResult.skipped = 1
    /\ Len(lastResult.errors) = 1
    /\ lastResult.errors[1].row = 4

\* A player of team T had the name before the import.
NameTaken(before, T, name) ==
    \E p \in DOMAIN before : before[p].team_id = T /\ before[p].name = name

\* The file without its k-th data row.
WithoutRow(file, k) ==
    LET rows == DataRows(file)
    IN [file EXCEPT !.lines = SubSeq(rows, 1, k - 1)
                                  \o SubSeq(rows, k + 1, Len(rows))]

\* C16: a valid row whose name is that of a player already in the target
\* team is skipped with the reason "Duplicate player: {name}" and inserts
\* nothing; a valid row whose name is new to the file and is held only by
\* players of other teams is imported; and the players after the import
\* are those an import of the file without the duplicate row would leave.
C16_DuplicateWithinTeam ==
    (ImportServed /\ lastResult.ok) =>
        LET rows == DataRows(upload.file)
            T == upload.team_id
            new == DOMAIN players \ DOMAIN upload.before
        IN \A k \in 1..Len(rows) :
              RowValid(rows[k]) =>
                 IF NameTaken(upload.before, T, RowName(rows[k]))
                 THEN /\ \E j \in 1..Len(lastResult.errors) :
                            /\ lastResult.errors[j].row = k + 1
                            /\ lastResult.errors[j].field = "name"
                            /\ lastResult.errors[j].reason
                                   = <<"Duplicate player:", RowName(rows[k])>>
                      /\ ~\E p \in new : players[p].name = RowName(rows[k])
                      /\ players = import_players(upload.before, T,
                                       WithoutRow(upload.file, k)).players
                 ELSE (~\E j \in 1..(k - 1) :
                          RowValid(rows[j])
                              /\ RowName(rows[j]) = RowName(rows[k]))
                      => \E p \in new :
                            /\ players[p].name = RowName(rows[k])
                            /\ players[p].team_id = T

\* Ann is in the other team only and is imported; Bob is in the target team
\* and is skipped.
C16_Witness ==
    /\ ImportServed
    /\ upload.file.lines = <<RowBob, RowAnn>>
    /\ NameTaken(upload.before, upload.team_id, Bob)
    /\ ~NameTaken(upload.before, upload.team_id, Ann)
    /\ \E p \in DOMAIN upload.before : upload.before[p].name = Ann
    /\ lastResult.imported = 1
    /\ lastResult.skipped = 1

\* C17: when two valid rows of one file carry the same name, not yet taken
\* in the team, the first is imported and the second is skipped as a
\* duplicate; after an import no two players of the target team that were
\* not both there before have the same name.
C17_DuplicateWithinBatch ==
    (ImportServed /\ lastResult.ok) =>
        LET rows == DataRows(upload.file)
            T == upload.team_id
            new == DOMAIN players \ DOMAIN upload.before
        IN /\ \A p \in new, q \in DOMAIN players :
                 (p # q /\ players[q].team_id = T)
                     => players[p].name # players[q].name
           /\ \A j, k \in 1..Len(rows) :
                 ( /\ j < k
                   /\ RowValid(rows[j]) /\ RowValid(rows[k])
                   /\ RowName(rows[j]) = RowName(rows[k])
                   /\ ~NameTaken(upload.before, T, RowName(rows[j]))
                   /\ ~\E i \in 1..(j - 1) :
                          RowValid(rows[i])
                              /\ RowName(rows[i]) = RowName(rows[j]) )
                 => /\ \E p \in new : players[p].name = RowName(rows[j])
                    /\ \E e \in 1..Len(lastResult.errors) :
                          /\ lastResult.errors[e].row = k + 1
                          /\ lastResult.errors[e].reason
                                 = <<"Duplicate player:", RowName(rows[k])>>

C17_Witness ==
    /\ ImportServed
    /\ upload.before = <<>>
    /\ upload.file.lines = <<RowAnn, RowBob, RowAnnPadded>>
    /\ lastResult.imported = 2
    /\ lastResult.skipped = 1
    /\ lastResult.errors[1].row = 4

\* C18: an import of a file whose header lacks an expected column, or of an
\* empty file, fails as a whole: it raises, reports no row and leaves the
\* players as they were, whatever its data rows.
C18_HeaderFailsWhole ==
    ( /\ upload.pc = "done"
      /\ upload.team_id \in DOMAIN teams
      /\ upload.file.is_csv_name
      /\ ~HeaderComplete(upload.file) )
    => /\ lastResult.op = "import_csv"
       /\ ~lastResult.ok
       /\ lastResult.imported = 0
       /\ lastResult.skipped = 0
       /\ lastResult.errors = <<>>
       /\ players = upload.before

C18_Witness ==
    /\ upload.pc = "done"
    /\ upload.team_id \in DOMAIN teams
    /\ upload.file.fieldnames # <<>>
    /\ ~HeaderComplete(upload.file)
    /\ ~lastResult.ok
    /\ upload.before = <<>>
    /\ upload.file.lines = <<RowAnn, RowBob>>

(* ---------------- field checks ---------------- *)
CountOf(text, c) == Cardinality({k \in 1..Len(text) : text[k] = c})

\* The text after the only "@" of an email that has exactly one.
DomainPart(email) ==
    LET at == CHOOSE k \in 1..Len(email) : email[k] = "@"
    IN SubSeq(email, at + 1, Len(email))

\* C19: a row with a non-empty email is imported exactly when its email has
\* exactly one "@" and a "." after it.
C19_EmailFormat ==
    (upload.pc = "done" /\ lastResult.op = "import_csv" /\ lastResult.ok
        /\ Len(upload.file.lines) = 1
        /\ upload.file.lines[1].email # <<>>)
    => LET email == upload.file.lines[1].email
       IN (lastResult.imported = 1)
             <=> ( /\ CountOf(email, "@") = 1
                   /\ CountOf(DomainPart(email), ".") > 0 )

\* C20: every stored player's jersey is absent or in 1..99, and a create,
\* an update or an import row that carries a jersey outside 1..99 is
\* rejected and leaves the players as they were.
C20_JerseyRange ==
    /\ [](\A p \in DOMAIN players :
            players[p].jersey = <<>>
                \/ (players[p].jersey[1] >= 1 /\ players[p].jersey[1] <= 99))
    /\ [][ /\ \A jersey \in {<<0>>, <<100>>} :
                CreatePlayer(1, Bob, "F", "Active", jersey)
                   => (~lastResult'.ok /\ players' = players)
           /\ \A player_id \in PlayerIdInputs, data \in JerseyUpdates :
                ( /\ data.jersey \in {<<0>>, <<100>>}
                  /\ UpdatePlayer(player_id, data) )
                   => (~lastResult'.ok /\ players' = players)
           /\ \A text \in {<<"0">>, <<"1", "0", "0">>, <<"-", "1">>} :
                ImportPlayersCsv(1, CsvFile(TRUE, EXPECTED_HEADERS,
                                    <<CsvRow(Ann, <<"F">>, text, <<>>, <<>>)>>))
                   => ( /\ lastResult'.imported = 0
                        /\ lastResult'.skipped = 1
                        /\ players' = players )
         ]_vars

\* A created, an updated and an imported player hold the jerseys 1 and 99,
\* and the last request carried a jersey out of range.
C20_Witness ==
    /\ \E p, q \in DOMAIN players :
          /\ players[p].jersey = <<1>> /\ players[p].name = Ann
          /\ players[q].jersey = <<99>> /\ players[q].name = Bob
    /\ ~lastResult.ok
    /\ lastResult.error = "RequestValidationError"

\* C24 as stated: delete_player leaves the player_id of every lineup slot as
\* it was, so a slot that held the deleted player still carries its id.
C24_SlotsKeepPlayer ==
    [][(lastResult'.op = "delete_player" /\ lastResult'.ok) =>
          \A i \in DOMAIN slots : slots'[i].player_id = slots[i].player_id
      ]_vars

\* C24: delete_player(P) of an existing player removes the player record
\* and empties every slot that held P; every other slot, and the structure
\* of P's slots, is as it was.  A delete of a missing id changes nothing.
C24_DeleteClearsSlots ==
    [][lastResult'.op = "delete_player" =>
          \A P \in PlayerIdInputs :
             DeletePlayer(P) =>
                IF P \in DOMAIN players
                THEN /\ lastResult'.ok
                     /\ DOMAIN players' = DOMAIN players \ {P}
                     /\ \A q \in DOMAIN players' : players'[q] = players[q]
                     /\ DOMAIN slots' = DOMAIN slots
                     /\ \A i \in DOMAIN slots :
                           IF slots[i].player_id = P
                           THEN /\ slots'[i].player_id = None
                                /\ Structure(slots'[i]) = Structure(slots[i])
                                /\ slots'[i].template_id = slots[i].template_id
                           ELSE slots'[i] = slots[i]
                ELSE /\ ~lastResult'.ok
                     /\ lastResult'.http = 404
                     /\ players' = players
                     /\ slots' = slots
      ]_vars

\* A player has been deleted, no slot carries its id, and a slot of the
\* lineup still holds the player that remains.
C24_Witness ==
    /\ lastResult.op = "delete_player" /\ lastResult.ok
    /\ lastResult.player_id \notin DOMAIN players
    /\ \A i \in DOMAIN slots : slots[i].player_id # lastResult.player_id
    /\ \E i \in DOMAIN slots : slots[i].player_id \in DOMAIN players

\* C27 as stated: a bulk update of template T leaves the player_id of every
\* slot of another template that one of its items names as it was.
C27_OnlySlotsOfTemplate ==
    (bulk.pc = "done" /\ lastResult.op = "bulk_update") =>
        \A k \in DOMAIN bulk.items :
           LET s == bulk.items[k].slot_id
           IN (s \in DOMAIN bulk.before
                  /\ bulk.before[s].template_id # bulk.template_id)
              => slots[s].player_id = bulk.before[s].player_id

\* C28 as stated: every duplicate warning a bulk update returns names a
\* player who holds at least two slots of the template once the call has
\* returned.
C28_WarningsDescribeResult ==
    (bulk.pc = "done" /\ lastResult.op = "bulk_update" /\ lastResult.ok) =>
        \A k \in DOMAIN lastResult.warnings :
           lastResult.warnings[k].type = "duplicate" =>
              \E p \in DOMAIN players :
                 /\ players[p].name = lastResult.warnings[k].message[2]
                 /\ Cardinality({i \in DOMAIN slots :
                                    /\ slots[i].template_id = bulk.template_id
                                    /\ slots[i].player_id = p}) >= 2

\* The warnings the loop body has just added to the list.
NewWarnings ==
    SubSeq(bulk'.all_warnings, Len(bulk.all_warnings) + 1,
           Len(bulk'.all_warnings))

\* C28 (amended): a duplicate warning describes the lineup at the moment its
\* assignment is applied: the assignment is written, and its player holds,
\* before and after it, another slot of the written slot's template, whose
\* label the warning carries; the response returns the warnings gathered.
C28_WarningsDescribeStep ==
    [][ /\ (bulk.pc = "loop" /\ bulk'.i = bulk.i + 1) =>
              LET item == bulk.items[bulk.i]
              IN \A k \in DOMAIN NewWarnings :
                    NewWarnings[k].type = "duplicate" =>
                       /\ item.player_id \in DOMAIN players
                       /\ NewWarnings[k].message[2]
                              = players[item.player_id].name
                       /\ slots'[item.slot_id].player_id = item.player_id
                       /\ \E j \in DOMAIN slots \ {item.slot_id} :
                             /\ slots[j].template_id
                                    = slots[item.slot_id].template_id
                             /\ slots[j].player_id = item.player_id
                             /\ slots'[j].player_id = item.player_id
                             /\ NewWarnings[k].message[4] = slots[j].slot_label
        /\ (bulk.pc = "loop" /\ bulk'.pc = "done") =>
              lastResult'.warnings = bulk.all_warnings
      ]_vars

\* A batch that swaps the players of slots 1 and 2 has returned one
\* duplicate warning, and neither player holds two slots.
C28_Witness ==
    /\ bulk.pc = "done" /\ lastResult.op = "bulk_update" /\ lastResult.ok
    /\ bulk.before[1].player_id = 1 /\ bulk.before[2].player_id = 2
    /\ bulk.items = << [slot_id |-> 1, player_id |-> 2],
                       [slot_id |-> 2, player_id |-> 1] >>
    /\ slots[1].player_id = 2 /\ slots[2].player_id = 1
    /\ Len(lastResult.warnings) = 1
    /\ lastResult.warnings[1].type = "duplicate"

\* C22: requests served one after another: a create_team whose (name,
\* season) an existing team has fails with 409 and leaves the teams as they
\* were, one whose pair differs in name or in season adds the team; so no
\* two teams ever share a (name, season).
C22_UniqueNameSeason ==
    /\ [](\A t, u \in DOMAIN teams :
            (teams[t].name = teams[u].name
                /\ teams[t].season = teams[u].season) => t = u)
    /\ [][lastResult'.op = "create_team" =>
             \A name \in TeamNameTexts, season \in SeasonTexts :
                CreateTeam(name, season) =>
                   IF \E t \in DOMAIN teams :
                         teams[t].name = name /\ teams[t].season = season
                   THEN /\ ~lastResult'.ok
                        /\ lastResult'.http = 409
                        /\ teams' = teams
                   ELSE /\ lastResult'.ok
                        /\ lastResult'.http = 201
                        /\ teams' = Append(teams, [name |-> name,
                                                   season |-> season])
         ]_vars

\* Two teams of one name and different seasons exist, and a create_team
\* has just been refused.
C22_Witness ==
    /\ Len(teams) = 2
    /\ teams[1].name = teams[2].name
    /\ teams[1].season # teams[2].season
    /\ lastResult.op = "create_team"
    /\ lastResult.http = 409

\* C23: list_teams returns every team exactly once, ascending by name and,
\* for equal names, ascending by season, whatever the creation order; the
\* empty list when there is no team.
C23_ListSorted ==
    lastResult.op = "list_teams" =>
       LET rows == lastResult.teams
       IN /\ lastResult.ok
          /\ Len(rows) = Len(teams)
          /\ \A t \in DOMAIN teams :
                \E i \in DOMAIN rows :
                   /\ rows[i].id = t
                   /\ rows[i].name = teams[t].name
                   /\ rows[i].season = teams[t].season
          /\ \A i, j \in DOMAIN rows :
                i < j =>
                   \/ TextLess(rows[i].name, rows[j].name)
                   \/ /\ rows[i].name = rows[j].name
                      /\ TextLess(rows[i].season, rows[j].season)
          /\ (teams = <<>>) => (rows = <<>>)

\* Two teams of one name are listed in the reverse of their creation order.
C23_Witness ==
    /\ lastResult.op = "list_teams"
    /\ Len(lastResult.teams) = 2
    /\ lastResult.teams[1].id = 2
    /\ lastResult.teams[1].name = lastResult.teams[2].name

\* C29 as stated: of two create_team requests with one (name, season)
\* served side by side at most one succeeds, and no state holds two teams
\* with one (name, season).
C29_AtMostOneSucceeds ==
    /\ \A t, u \in DOMAIN teams :
          (teams[t].name = teams[u].name
              /\ teams[t].season = teams[u].season) => t = u
    /\ ( /\ requests[1].name = requests[2].name
         /\ requests[1].season = requests[2].season
         /\ requests[1].pc = "done" /\ requests[2].pc = "done" )
       => ~(requests[1].response.ok /\ requests[2].response.ok)

\* The two requests assign one player to two different slots.
SamePlayerTwoSlots ==
    /\ requests[1].player_id = requests[2].player_id
    /\ requests[1].player_id # None
    /\ requests[1].slot_id # requests[2].slot_id
    /\ requests[1].slot_id \in DOMAIN slots
    /\ requests[2].slot_id \in DOMAIN slots

HasDuplicateWarning(warnings) ==
    \E k \in DOMAIN warnings : warnings[k].type = "duplicate"

C25_RollbackOnFailure ==
    ( /\ upload.pc = "done"
      /\ lastResult.op = "restore_backup"
      /\ lastResult.message = "Restored database is invalid"
      /\ upload.before.db.exists )
    => /\ ~lastResult.ok
       /\ files.db = upload.before.db
       /\ ~files.pre_restore.exists

\* A restore of bytes that are no database has failed its verification, and
\* the database file holds the database it held before.
C25_Witness ==
    /\ upload.pc = "done"
    /\ lastResult.op = "restore_backup"
    /\ lastResult.message = "Restored database is invalid"
    /\ upload.file.content = <<"x">>
    /\ upload.before.db = File(<<"SQLite format 3", "a">>)
    /\ files.db = File(<<"SQLite format 3", "a">>)
    /\ ~files.pre_restore.exists

\* C26 as stated: a restore of a non-empty upload named *.db that holds a
\* database returns success, leaves the database file with the uploaded
\* bytes and removes the pre-restore copy.
C26_ValidRestoreSucceeds ==
    ( /\ upload.pc = "done"
      /\ lastResult.op = "restore_backup"
      /\ upload.file.is_db_name
      /\ upload.file.content # <<>>
      /\ upload.file.content[1] = "SQLite format 3" )
    => /\ lastResult.ok
       /\ files.db = File(upload.file.content)
       /\ ~files.pre_restore.exists

\* The fields of a player that the round trip is to keep.
Kept(player) ==
    <<player.name, player.position, player.jersey, player.status>>

\* C21 as stated: the export of a team that create_player, update_player
\* and imports built, imported into a team without players, imports every
\* row (imported is the number of players, none skipped) and gives players
\* with the same name, position, jersey and status.
C21_RoundTrip ==
    (upload.pc = "done" /\ upload.team_id = 2
        /\ lastResult.op = "import_csv") =>
       LET source == {p \in DOMAIN upload.before :
                         upload.before[p].team_id = 1}
           target == {p \in DOMAIN players : players[p].team_id = 2}
       IN /\ lastResult.ok
          /\ lastResult.imported = Cardinality(source)
          /\ lastResult.skipped = 0
          /\ \E f \in [source -> target] :
                /\ \A q \in target : \E p \in source : f[p] = q
                /\ \A p, q \in source : f[p] = f[q] => p = q
                /\ \A p \in source :
                      Kept(players[f[p]]) = Kept(upload.before[p])
====
